---- MODULE Spec2Model ----
(***************************************************************************)
(* Model of sim_soia_hivemq.py: the tick loop of run(), one DeviceState    *)
(* per device, and the records published per device and per tick.          *)
(*                                                                         *)
(* Units.  Python floats are modelled exactly, as integers or as            *)
(* normalised fractions [n, d]:                                             *)
(*   volts            millivolts (flow_volts) / fraction of a volt (level)  *)
(*   cm3 (emboladas)  microlitres, 0.25 cm3 = 250                           *)
(*   litres (tank)    microlitres, 1 L = 1000000                            *)
(*   rho g/cm3        thousandths, 0.815 = 815                              *)
(*   probabilities and noise   percent, 0.02 = 2, 0.03 = 3                  *)
(*   time             seconds                                               *)
(***************************************************************************)
EXTENDS Integers, Sequences, FiniteSets, TLC

VARIABLES cfg, st, next_stat_time, clock, t0, ts, now, idx, pc, loc, outbox,
          last_stat, streak

vars == <<cfg, st, next_stat_time, clock, t0, ts, now, idx, pc, loc, outbox,
          last_stat, streak>>

(***************************************************************************)
(* Bounds of the exploration.                                              *)
(***************************************************************************)
\* wall-clock reading when run() starts (any value past the refresh interval)
StartClock == 1000
\* ticks explored for a configuration that issues pulses
MaxTicks == 6
\* ticks explored for a configuration whose pumps both have displacement 0
\* (no pulses are ever issued, so only the flow signal and the clock move)
MaxIdleTicks == 27
\* cap on a device's lifetime pulses (pulses_total_A + pulses_total_B)
MaxPulses == 16
\* longest time one device's publishing can take, in seconds
MaxDelay == 1

(***************************************************************************)
(* Exact fractions.                                                        *)
(***************************************************************************)
AbsInt(k) == IF k < 0 THEN 0 - k ELSE k

\* Euclid's algorithm on naturals
gcd[a \in Nat, b \in Nat] == IF b = 0 THEN a ELSE gcd[b, a % b]

GCD(a, b) == gcd[a, b]

Rat(n, d) ==
    LET g == GCD(AbsInt(n), AbsInt(d))
        s == IF d < 0 THEN 0 - 1 ELSE 1
    IN  IF n = 0 THEN [n |-> 0, d |-> 1]
        ELSE [n |-> s * (n \div g), d |-> s * (d \div g)]

RatInt(k) == [n |-> k, d |-> 1]

RatMul(a, b) ==
    LET g1 == GCD(AbsInt(a.n), b.d)
        g2 == GCD(AbsInt(b.n), a.d)
    IN  IF a.n = 0 \/ b.n = 0 THEN RatInt(0)
        ELSE Rat((a.n \div g1) * (b.n \div g2), (a.d \div g2) * (b.d \div g1))

RatAdd(a, b) ==
    LET g == GCD(a.d, b.d)
    IN  Rat(a.n * (b.d \div g) + b.n * (a.d \div g), (a.d \div g) * b.d)

RatNeg(a) == [n |-> 0 - a.n, d |-> a.d]

RatSub(a, b) == RatAdd(a, RatNeg(b))

RatAbs(a) == [n |-> AbsInt(a.n), d |-> a.d]

\* a / b for b # 0
RatDiv(a, b) ==
    RatMul(a, IF b.n < 0 THEN [n |-> 0 - b.d, d |-> 0 - b.n] ELSE [n |-> b.d, d |-> b.n])

RatLt(a, b) == a.n * b.d < b.n * a.d

RatLe(a, b) == a.n * b.d <= b.n * a.d

RatMax(a, b) == IF RatLt(a, b) THEN b ELSE a

RatMin(a, b) == IF RatLt(b, a) THEN b ELSE a

\* Python round(x): nearest integer, ties to the even one
RoundHalfEven(a) ==
    LET q == a.n \div a.d
        r == a.n % a.d
    IN  IF 2 * r < a.d THEN q
        ELSE IF 2 * r > a.d THEN q + 1
        ELSE IF q % 2 = 0 THEN q ELSE q + 1

\* Python round(x, k) for scale = 10^k, as integer numbers of 1/scale: the
\* results round() can give for the double that stands for the fraction a.
\* Off a decimal tie that is the nearest number.  On a decimal tie the double
\* the program holds is the tie itself or lies a little below or above it,
\* depending on the operations that produced it (st.tank_l is the result of
\* one subtraction per tick), and round() gives the lower or the upper
\* neighbour accordingly.
RoundTo(a, scale) ==
    IF 2 * (RatMul(a, RatInt(scale)).n % RatMul(a, RatInt(scale)).d)
           = RatMul(a, RatInt(scale)).d
    THEN {RatMul(a, RatInt(scale)).n \div RatMul(a, RatInt(scale)).d,
          (RatMul(a, RatInt(scale)).n \div RatMul(a, RatInt(scale)).d) + 1}
    ELSE {RoundHalfEven(RatMul(a, RatInt(scale)))}

(***************************************************************************)
(* Config: the dataclass defaults, and the environments explored.          *)
(***************************************************************************)
Config ==
    [ devices            |-> <<"dev-001">>,
      period_s           |-> 30,
      qos                |-> 0,
      retain_stat        |-> TRUE,
      q_span_m3min       |-> 30,
      C_mgm3             |-> 250,
      rho_g_cm3          |-> 815,
      E_A_cm3            |-> 250,
      E_B_cm3            |-> 250,
      tank_liters        |-> 200000000,
      max_spm            |-> 45,
      di_fail_prob       |-> 2,
      mismatch_noise_pct |-> 3 ]

\* E_A_CM3=1.0 E_B_CM3=0.5 TANK_LITERS=0.009: two pulses per tick on A,
\* four on B, and a tank that runs dry within the horizon
CfgAsym == [Config EXCEPT !.E_A_cm3 = 1000, !.E_B_cm3 = 500, !.tank_liters = 9000]

\* E_A_CM3=4.14 E_B_CM3=4.14 TANK_LITERS=0.02: zero or one pulse per tick
CfgSlow == [Config EXCEPT !.E_A_cm3 = 4140, !.E_B_cm3 = 4140, !.tank_liters = 20000]

\* E_A_CM3=0 E_B_CM3=0 TANK_LITERS=0: the degenerate configuration
CfgZero == [Config EXCEPT !.E_A_cm3 = 0, !.E_B_cm3 = 0, !.tank_liters = 0]

\* DEVICES=dev-001,dev-002 PERIOD_S=1 E_A_CM3=0.01 E_B_CM3=0.01 MAX_SPM=420
\* MISMATCH_NOISE_PCT=0:
\* two devices whose publishing can outlast the period, seven pulses per
\* tick at the mechanical ceiling
CfgTwo ==
    [Config EXCEPT !.devices = <<"dev-001", "dev-002">>, !.period_s = 1,
                   !.E_A_cm3 = 10, !.E_B_cm3 = 10, !.max_spm = 420,
                   !.mismatch_noise_pct = 0]

\* MAX_SPM=17: a mechanical ceiling inside the range of the flow signal, which
\* the noise alone can cross
CfgCeil == [Config EXCEPT !.max_spm = 17]

Configs == {Config, CfgAsym, CfgSlow, CfgZero, CfgTwo, CfgCeil}

Devices(c) == {c.devices[i] : i \in 1..Len(c.devices)}

(***************************************************************************)
(* The random draws and the time a device's publishing takes.              *)
(***************************************************************************)
\* random.uniform(-0.2, 0.2) offsets of the initial flow signal, in mV
FlowInitDraws == {-200, 160}

\* random.uniform(-0.06, 0.06) steps of the flow signal, in mV
FlowDraws == {-60, 0, 60}

\* random.uniform(-noise, +noise), in percent
NoiseDraws(c) == {-c.mismatch_noise_pct, 0, c.mismatch_noise_pct}

\* random.random(), in percent
SensorDraws == {0, 50}

\* the seconds an iteration spends before it reads the clock at line 192
\* (the six telemetry publishes) and after it (the status publish)
Delays == {<<0, 0>>, <<MaxDelay, 0>>, <<0, MaxDelay>>}

(***************************************************************************)
(* DeviceState.__init__                                                    *)
(***************************************************************************)
DeviceState(c, f) ==
    [ active          |-> "A",
      no_detect_count |-> 0,
      pulses_total_A  |-> 0,
      pulses_total_B  |-> 0,
      tank_l          |-> c.tank_liters,
      flow_volts      |-> 2800 + f,
      level_volts     |-> Rat(46, 10) ]

(***************************************************************************)
(* The pure steps of one device's iteration.                               *)
(***************************************************************************)
Max(a, b) == IF a > b THEN a ELSE b

Min(a, b) == IF a < b THEN a ELSE b

\* clamp without its lower rail
clamp_upper_only(v, a, b) == Min(b, v)

\* clamp on integers (millivolts)
clamp(v, a, b) == Max(a, Min(b, v))

\* clamp on fractions
clampR(v, a, b) == RatMax(a, RatMin(b, v))

\* 1-5 V => 0..q_span, m3/min
map_flow_volts_to_q_m3min(volts, c) ==
    RatMax(RatInt(0), RatMul(Rat(volts - 1000, 4000), RatInt(c.q_span_m3min)))

\* E = cfg.E_A_cm3 if st.active == "A" else cfg.E_B_cm3
active_displacement(active, c) == IF active = "A" THEN c.E_A_cm3 ELSE c.E_B_cm3

\* spm_teo, strokes per minute
theoretical_rate(Q, E, c) ==
    IF E <= 0 THEN RatInt(0)
    ELSE RatDiv(RatMul(Q, RatInt(c.C_mgm3)),
                RatMul(RatMul(RatInt(1000), Rat(c.rho_g_cm3, 1000)), Rat(E, 1000)))

\* spm_real before saturation, u the noise draw in percent
noisy_rate(teo, u) == RatMul(teo, Rat(100 + u, 100))

exceeds_limit(spm, c) == RatLt(RatInt(c.max_spm), spm)

\* the ceiling flagged but not applied
saturate_flag_only(spm, c) == spm

saturate(spm, c) == IF exceeds_limit(spm, c) THEN RatInt(c.max_spm) ELSE spm

pulses_of(spm_real, c) ==
    Max(0, RoundHalfEven(RatMul(spm_real, Rat(c.period_s, 60))))

\* random.random() < cfg.di_fail_prob
sensor_fails(r, c) == r < c.di_fail_prob

\* the counter update without the zero-pulse case
count_no_detect_fail_only(count, inj_fail, pulses) ==
    IF inj_fail THEN count + pulses ELSE 0

\* a counter of ticks without detection rather than of pulses
count_no_detect_per_tick(count, inj_fail, pulses) ==
    IF inj_fail \/ pulses = 0 THEN count + Max(1, pulses) ELSE 0

\* the counter assigned, not incremented
count_no_detect_assigned(count, inj_fail, pulses) ==
    IF inj_fail \/ pulses = 0 THEN pulses ELSE 0

count_no_detect(count, inj_fail, pulses) ==
    IF inj_fail \/ pulses = 0 THEN count + pulses ELSE 0

RotationThreshold == 5

\* the rotation test with a strict comparison
needs_rotation_strict(count) == count > RotationThreshold

needs_rotation(count) == count >= RotationThreshold

other_pump(active) == IF active = "A" THEN "B" ELSE "A"

RotationReason == "sensor_no_detection_after_5_pulses"

\* the results round(..., 1) can give for mismatch_pct, in tenths
mismatch_of(teo, real) ==
    IF teo.n = 0 THEN {0}
    ELSE RoundTo(RatMul(RatDiv(RatAbs(RatSub(real, teo)), teo), RatInt(100)), 10)

\* the depletion without the floor at zero
consume_unclamped(tank_l, pulses, E) == tank_l - pulses * E

\* st.tank_l after consumption, microlitres
consume(tank_l, pulses, E) == Max(0, tank_l - pulses * E)

\* a tank without capacity read as a full tank
level_percent_full_without_capacity(tank_l, c) ==
    RatMul(RatInt(100), IF c.tank_liters > 0 THEN Rat(tank_l, c.tank_liters) ELSE RatInt(1))

level_percent(tank_l, c) ==
    RatMul(RatInt(100), IF c.tank_liters > 0 THEN Rat(tank_l, c.tank_liters) ELSE RatInt(0))

level_volts_of(level_pct) ==
    RatAdd(RatInt(1),
           RatDiv(RatMul(RatInt(4), clampR(level_pct, RatInt(0), RatInt(100))), RatInt(100)))

\* the status published on the refresh timer only
stat_due_on_refresh_only(rotated, nowv, nst) == nowv - nst >= 300

stat_due(rotated, nowv, nst) == rotated \/ nowv >= nst

(***************************************************************************)
(* Lines 104-124 and 171: the dosing of one iteration, from the clamped    *)
(* flow signal, the active pump and the noise draw u.                      *)
(***************************************************************************)
dosing(c, active, flow_volts, u) ==
    LET Q_m3min == map_flow_volts_to_q_m3min(flow_volts, c)
        E == active_displacement(active, c)
        spm_teo == theoretical_rate(Q_m3min, E, c)
        spm_noisy == noisy_rate(spm_teo, u)
        spm_real == saturate(spm_noisy, c)
    IN  { [ Q_m3min            |-> Q_m3min,
            E                  |-> E,
            spm_teo            |-> spm_teo,
            spm_noisy          |-> spm_noisy,
            spm_real           |-> spm_real,
            under_limit        |-> exceeds_limit(spm_noisy, c),
            pulses_this_period |-> pulses_of(spm_real, c),
            mismatch_pct       |-> m,
            \* the rounded numbers of the records
            Q_m3min_3          |-> q3,
            Q_m3h_1            |-> h1,
            spm_teo_3          |-> t3,
            spm_real_3         |-> r3 ] :
          m \in mismatch_of(spm_teo, spm_real),
          q3 \in RoundTo(Q_m3min, 1000),
          h1 \in RoundTo(RatMul(Q_m3min, RatInt(60)), 10),
          t3 \in RoundTo(spm_teo, 1000),
          r3 \in RoundTo(spm_real, 1000) }

\* lines 183-184 and the rounded numbers of the level record
level(c, tank_l) ==
    LET level_pct == level_percent(tank_l, c)
        level_volts == level_volts_of(level_pct)
    IN  { [ level_pct   |-> level_pct,
            level_volts |-> level_volts,
            volts_3     |-> v3,
            percent_2   |-> p2,
            tank_l_3    |-> l3 ] :
          v3 \in RoundTo(level_volts, 1000),
          p2 \in RoundTo(level_pct, 100),
          l3 \in RoundTo(Rat(tank_l, 1000000), 1000) }

(***************************************************************************)
(* The two computations above, tabulated over the values the explored      *)
(* runs can present (a constant function is evaluated once).               *)
(***************************************************************************)
Pumps == {"A", "B"}

\* the flow signal moves on a 20 mV grid; the table spans the rails 1.0 V
\* (index 0) and 5.0 V (index 200) with a margin on either side
FlowGrid == -20..220

\* a tank holds its capacity less the volume of the pulses issued so far
TankValues(c) ==
    {0} \cup {c.tank_liters - a * c.E_A_cm3 - b * c.E_B_cm3 :
                a \in 0..(MaxPulses + 1), b \in 0..(MaxPulses + 1)}

Dosing ==
    [c \in Configs |-> [active \in Pumps |-> [k \in FlowGrid |-> [u \in NoiseDraws(c) |->
        dosing(c, active, 1000 + 20 * k, u)]]]]

Level == [c \in Configs |-> [t \in TankValues(c) |-> level(c, t)]]

(***************************************************************************)
(* publish_json: the records one iteration hands to the client, in order.  *)
(* Rounded numbers are integers in units of the rounding step.             *)
(***************************************************************************)
flow_record(dev, tsv, volts, D) ==
    [ topic |-> "tele/ai/flow", dev |-> dev, ts |-> tsv, retain |-> FALSE,
      volts |-> volts, Q_m3min |-> D.Q_m3min_3, Q_m3h |-> D.Q_m3h_1 ]

sensor_record(dev, tsv, inj_fail) ==
    [ topic |-> "tele/di/inj_sensor", dev |-> dev, ts |-> tsv, retain |-> FALSE,
      state |-> IF inj_fail THEN "closed" ELSE "open" ]

\* this tick's pulses and rate reported for the inactive pump as well
pulse_record_both_active(dev, tsv, pump, total, active, D, E) ==
    [ topic |-> IF pump = "A" THEN "tele/pulse/doserA" ELSE "tele/pulse/doserB",
      dev |-> dev, ts |-> tsv, retain |-> FALSE,
      pulses_total |-> total,
      pulses_period |-> D.pulses_this_period,
      rate_per_min |-> D.spm_real_3,
      embolada_cm3 |-> E ]

pulse_record(dev, tsv, pump, total, active, D, E) ==
    [ topic |-> IF pump = "A" THEN "tele/pulse/doserA" ELSE "tele/pulse/doserB",
      dev |-> dev, ts |-> tsv, retain |-> FALSE,
      pulses_total |-> total,
      pulses_period |-> IF active = pump THEN D.pulses_this_period ELSE 0,
      rate_per_min |-> IF active = pump THEN D.spm_real_3 ELSE 0,
      embolada_cm3 |-> E ]

qa_record(dev, tsv, D) ==
    [ topic |-> "tele/qa/dosing_check", dev |-> dev, ts |-> tsv, retain |-> FALSE,
      spm_teo |-> D.spm_teo_3,
      spm_real |-> D.spm_real_3,
      mismatch_pct |-> D.mismatch_pct,
      under_dosing_due_to_limit |-> D.under_limit ]

level_record(dev, tsv, L) ==
    [ topic |-> "tele/ai/level", dev |-> dev, ts |-> tsv, retain |-> FALSE,
      volts |-> L.volts_3, percent |-> L.percent_2, tank_l |-> L.tank_l_3 ]

\* the status record without its reason
stat_record_no_reason(dev, tsv, active, reason, c) ==
    [ topic |-> "stat/active_doser", dev |-> dev, ts |-> tsv, retain |-> c.retain_stat,
      active |-> active, reason |-> "None" ]

stat_record(dev, tsv, active, reason, c) ==
    [ topic |-> "stat/active_doser", dev |-> dev, ts |-> tsv, retain |-> c.retain_stat,
      active |-> active, reason |-> reason ]

\* a status record published twice
stat_records_twice(due, dev, tsv, active, reason, c) ==
    IF due THEN <<stat_record(dev, tsv, active, reason, c),
                  stat_record(dev, tsv, active, reason, c)>>
    ELSE <<>>

stat_records(due, dev, tsv, active, reason, c) ==
    IF due THEN <<stat_record(dev, tsv, active, reason, c)>> ELSE <<>>

(***************************************************************************)
(* Lines 127-147: the sensor sample, the no-detection counter and the      *)
(* rotation, from the device's state s and this tick's pulse count.        *)
(***************************************************************************)
\* a rotation that leaves the counter as it is
rotation_without_reset(s, inj_fail, pulses) ==
    LET counted == count_no_detect(s.no_detect_count, inj_fail, pulses)
    IN  [ inj_fail        |-> inj_fail,
          rotated         |-> needs_rotation(counted),
          active          |-> IF needs_rotation(counted) THEN other_pump(s.active)
                              ELSE s.active,
          no_detect_count |-> counted,
          reason          |-> IF needs_rotation(counted) THEN RotationReason ELSE "None" ]

rotation(s, inj_fail, pulses) ==
    LET counted == count_no_detect(s.no_detect_count, inj_fail, pulses)
    IN  [ inj_fail        |-> inj_fail,
          rotated         |-> needs_rotation(counted),
          active          |-> IF needs_rotation(counted) THEN other_pump(s.active)
                              ELSE s.active,
          no_detect_count |-> IF needs_rotation(counted) THEN 0 ELSE counted,
          reason          |-> IF needs_rotation(counted) THEN RotationReason ELSE "None" ]

\* the attribution to the pump active before the rotation
total_A_before_rotation(s, active, pulses) ==
    IF s.active = "A" THEN s.pulses_total_A + pulses ELSE s.pulses_total_A

\* lines 150-153: st.pulses_total_A / st.pulses_total_B after attribution
total_A(s, active, pulses) ==
    IF active = "A" THEN s.pulses_total_A + pulses ELSE s.pulses_total_A

\* the attribution to B decided by the pump active before the rotation
total_B_before_rotation(s, active, pulses) ==
    IF s.active = "A" THEN s.pulses_total_B ELSE s.pulses_total_B + pulses

total_B(s, active, pulses) ==
    IF active = "A" THEN s.pulses_total_B ELSE s.pulses_total_B + pulses

(***************************************************************************)
(* The state, the locals and the records that one iteration leaves, from   *)
(* its dosing D, its rotation R and its level L.                           *)
(***************************************************************************)
iteration(dev, s, c, tsv, nowv, nst, flow_volts, D, R, L, tank_l) ==
    [ st  |-> [ active          |-> R.active,
                no_detect_count |-> R.no_detect_count,
                pulses_total_A  |-> total_A(s, R.active, D.pulses_this_period),
                pulses_total_B  |-> total_B(s, R.active, D.pulses_this_period),
                tank_l          |-> tank_l,
                flow_volts      |-> flow_volts,
                level_volts     |-> L.level_volts ],
      loc |-> [ dev                |-> dev,
                Q_m3min            |-> D.Q_m3min,
                E                  |-> D.E,
                spm_teo            |-> D.spm_teo,
                spm_noisy          |-> D.spm_noisy,
                spm_real           |-> D.spm_real,
                under_limit        |-> D.under_limit,
                pulses_this_period |-> D.pulses_this_period,
                inj_fail           |-> R.inj_fail,
                rotated            |-> R.rotated,
                reason             |-> R.reason,
                mismatch_pct       |-> D.mismatch_pct,
                level_pct          |-> L.level_pct ],
      out |-> <<flow_record(dev, tsv, flow_volts, D),
                sensor_record(dev, tsv, R.inj_fail),
                pulse_record(dev, tsv, "A", total_A(s, R.active, D.pulses_this_period),
                             R.active, D, c.E_A_cm3),
                pulse_record(dev, tsv, "B", total_B(s, R.active, D.pulses_this_period),
                             R.active, D, c.E_B_cm3),
                qa_record(dev, tsv, D),
                level_record(dev, tsv, L)>>
              \o stat_records(stat_due(R.rotated, nowv, nst), dev, tsv, R.active, R.reason, c) ]

(***************************************************************************)
(* One iteration of "for dev, st in states.items()": s the device's state, *)
(* du, u, r the three random draws, nowv the clock read at line 192: the   *)
(* results it can have, one for each result of the roundings.              *)
(***************************************************************************)
Iterate(dev, s, c, tsv, nowv, nst, du, u, r) ==
    UNION { { iteration(dev, s, c, tsv, nowv, nst, clamp(s.flow_volts + du, 1000, 5000), D,
                        rotation(s, sensor_fails(r, c), D.pulses_this_period),
                        L,
                        \* D.E is the displacement read at line 113, before the rotation
                        consume(s.tank_l, D.pulses_this_period, D.E)) :
                L \in Level[c][consume(s.tank_l, D.pulses_this_period, D.E)] } :
            D \in Dosing[c][s.active][(clamp(s.flow_volts + du, 1000, 5000) - 1000) \div 20][u] }

\* one DeviceState object shared by all the devices
store_shared(states, dev, s) == [d \in DOMAIN states |-> s]

\* states = {dev: DeviceState(dev, cfg)}: the iteration writes the object of
\* its own device
store(states, dev, s) == [states EXCEPT ![dev] = s]

\* the locals before any iteration has run
NoLocals ==
    [ dev |-> "", Q_m3min |-> RatInt(0), E |-> 0, spm_teo |-> RatInt(0),
      spm_noisy |-> RatInt(0), spm_real |-> RatInt(0), under_limit |-> FALSE,
      pulses_this_period |-> 0, inj_fail |-> FALSE, rotated |-> FALSE,
      reason |-> "None", mismatch_pct |-> 0, level_pct |-> RatInt(0) ]

(***************************************************************************)
(* What the run leaves outside the process: the status record a last-value *)
(* subscriber holds for each device, and, as a history of the run, each    *)
(* device's current series of consecutive FAIL ticks with pulses that have *)
(* not led to a rotation.                                                  *)
(***************************************************************************)
NoStatus ==
    [ topic |-> "", dev |-> "", ts |-> 0, retain |-> FALSE, active |-> "", reason |-> "None" ]

\* the last status record of out, or held when out has none
last_status(held, out) ==
    LET stats == SelectSeq(out, LAMBDA m : m.topic = "stat/active_doser")
    IN  IF stats = <<>> THEN held ELSE stats[Len(stats)]

\* the time the status publish of lines 194-196 takes: d when out has one
publish_time(out, d) == IF last_status(NoStatus, out) = NoStatus THEN 0 ELSE d

NoStreak == [ticks |-> 0, pulses |-> 0]

next_streak(k, l) ==
    IF l.inj_fail /\ l.pulses_this_period >= 1 /\ ~l.rotated
    THEN [ticks |-> k.ticks + 1, pulses |-> k.pulses + l.pulses_this_period]
    ELSE NoStreak

\* "if time.time() - next_stat_time >= 300: next_stat_time = time.time()"
RefreshInterval == 300

refresh(nst, t) == IF t - nst >= RefreshInterval THEN t ELSE nst

\* a sleep of the whole period, whatever the processing took
sleep_s_whole_period(c, dt) == c.period_s

\* sleep_s = max(0.0, cfg.period_s - dt)
sleep_s(c, dt) == Max(0, c.period_s - dt)

(***************************************************************************)
(* run()                                                                   *)
(***************************************************************************)
Horizon(c) == IF c.E_A_cm3 = 0 /\ c.E_B_cm3 = 0 THEN MaxIdleTicks ELSE MaxTicks

Init ==
    /\ cfg \in Configs
    /\ st \in [Devices(cfg) -> {DeviceState(cfg, f) : f \in FlowInitDraws}]
    /\ next_stat_time = 0
    /\ clock = StartClock
    /\ t0 = 0
    /\ ts = 0
    /\ now = 0
    /\ idx = 0
    /\ pc = "while"
    /\ loc = NoLocals
    /\ outbox = <<>>
    /\ last_stat = [d \in Devices(cfg) |-> NoStatus]
    /\ streak = [d \in Devices(cfg) |-> NoStreak]

\* top of "while True": t0 = time.time(); ts = iso_utc()
StartTick ==
    /\ pc = "while"
    /\ clock < StartClock + Horizon(cfg) * cfg.period_s
    /\ t0' = clock
    /\ ts' = clock
    /\ idx' = 1
    /\ pc' = "for"
    /\ UNCHANGED <<cfg, st, next_stat_time, clock, now, loc, outbox, last_stat, streak>>

\* the body of the for loop, for the next device
ProcessDevice ==
    /\ pc = "for"
    /\ idx <= Len(cfg.devices)
    /\ \E du \in FlowDraws, u \in NoiseDraws(cfg), r \in SensorDraws, delay \in Delays :
          \E res \in Iterate(cfg.devices[idx], st[cfg.devices[idx]], cfg, ts,
                              clock + delay[1], next_stat_time, du, u, r) :
              /\ res.st.pulses_total_A + res.st.pulses_total_B <= MaxPulses
              /\ st' = store(st, cfg.devices[idx], res.st)
              /\ loc' = res.loc
              /\ outbox' = res.out
              /\ last_stat' = [last_stat EXCEPT ![cfg.devices[idx]] = last_status(@, res.out)]
              /\ streak' = [streak EXCEPT ![cfg.devices[idx]] = next_streak(@, res.loc)]
              /\ now' = clock + delay[1]
              /\ clock' = clock + delay[1] + publish_time(res.out, delay[2])
    /\ idx' = idx + 1
    /\ UNCHANGED <<cfg, next_stat_time, t0, ts, pc>>

\* after the for loop: the refresh timer, then the sleep to the next tick
EndTick ==
    /\ pc = "for"
    /\ idx > Len(cfg.devices)
    /\ next_stat_time' = refresh(next_stat_time, clock)
    /\ clock' = clock + sleep_s(cfg, clock - t0)
    /\ pc' = "while"
    /\ UNCHANGED <<cfg, st, t0, ts, now, idx, loc, outbox, last_stat, streak>>

Next == StartTick \/ ProcessDevice \/ EndTick

Spec == Init /\ [][Next]_vars

(***************************************************************************)
(* Vocabulary of the properties.                                           *)
(***************************************************************************)
\* the step that runs one iteration of the for loop, for device Dev
ProcStep == pc = "for" /\ idx <= Len(cfg.devices) /\ idx' = idx + 1

Dev == cfg.devices[idx]

StatTopic == "stat/active_doser"

StatusOf(out) == SelectSeq(out, LAMBDA m : m.topic = StatTopic)

\* some device has been processed; loc and outbox are those of its iteration
Processed == loc.dev # ""

(***************************************************************************)
(* C1.  In every tick the tank is depleted with the displacement of the    *)
(* pump that is active after the tick's rotation:                          *)
(* tank_l' = max(0, tank_l - pulses * displacement(active') / 1000).       *)
(* The code reads the displacement at line 113, before the rotation, so    *)
(* the statement fails on a rotation tick when E_A # E_B.                  *)
(***************************************************************************)
C1_DepletionByPumpAfterRotation ==
    [][ProcStep =>
          st'[Dev].tank_l =
              Max(0, st[Dev].tank_l
                       - loc'.pulses_this_period
                           * (IF st'[Dev].active = "A" THEN cfg.E_A_cm3 ELSE cfg.E_B_cm3))]_vars

(***************************************************************************)
(* C2.  On a tick in which the device did not rotate, a status record is   *)
(* published only if the refresh interval has elapsed since the last       *)
(* refresh.  The code sets next_stat_time to the time of the refresh, not  *)
(* to the time of the next one, so "now >= next_stat_time" holds on every  *)
(* tick and the record is published on every tick.                         *)
(***************************************************************************)
C2_StatusOnlyWhenRefreshDue ==
    [][(ProcStep /\ st'[Dev].active = st[Dev].active /\ StatusOf(outbox') # <<>>)
          => now' - next_stat_time >= RefreshInterval]_vars

(***************************************************************************)
(* C3.  active is A or B; it changes only in the device's own iteration,   *)
(* and there iff the no-detection counter after this tick's update is >= 5;*)
(* then the pump flips, the counter is 0 and the reason is                 *)
(* sensor_no_detection_after_5_pulses; otherwise active is unchanged.      *)
(***************************************************************************)
C3_Counted ==
    IF loc'.inj_fail \/ loc'.pulses_this_period = 0
    THEN st[Dev].no_detect_count + loc'.pulses_this_period
    ELSE 0

C3_Rotation ==
    /\ [](\A d \in Devices(cfg) : st[d].active \in {"A", "B"})
    /\ [][/\ ProcStep =>
               /\ (st'[Dev].active # st[Dev].active) <=> (C3_Counted >= 5)
               /\ C3_Counted >= 5 =>
                     /\ st[Dev].active = "A" => st'[Dev].active = "B"
                     /\ st[Dev].active = "B" => st'[Dev].active = "A"
                     /\ st'[Dev].no_detect_count = 0
                     /\ loc'.rotated
                     /\ loc'.reason = "sensor_no_detection_after_5_pulses"
               /\ C3_Counted < 5 => ~loc'.rotated /\ loc'.reason = "None"
               /\ \A d \in Devices(cfg) \ {Dev} : st'[d].active = st[d].active
          /\ ~ProcStep => \A d \in Devices(cfg) : st'[d].active = st[d].active]_vars

\* the scenario of the spec: counter 4, FAIL, 2 pulses, rotation to B
C3_Witness ==
    /\ Processed
    /\ loc.rotated /\ loc.inj_fail /\ loc.pulses_this_period = 2
    /\ st[loc.dev].active = "B" /\ st[loc.dev].no_detect_count = 0
    /\ st[loc.dev].pulses_total_A = 4

(***************************************************************************)
(* C4.  The counter update: on FAIL or zero pulses the counter grows by    *)
(* this tick's pulse count (flat when that is 0, never reset); on OK with  *)
(* at least one pulse it becomes 0.  The counter is never negative.  The   *)
(* updated counter is what the rotation test reads; when it is below 5 it  *)
(* is the counter the tick leaves.                                         *)
(***************************************************************************)
C4_CounterUpdate ==
    /\ [](\A d \in Devices(cfg) : st[d].no_detect_count >= 0)
    /\ [][ProcStep =>
             /\ (loc'.inj_fail \/ loc'.pulses_this_period = 0) =>
                   /\ loc'.rotated <=>
                         st[Dev].no_detect_count + loc'.pulses_this_period >= 5
                   /\ ~loc'.rotated =>
                         st'[Dev].no_detect_count =
                             st[Dev].no_detect_count + loc'.pulses_this_period
             /\ (~loc'.inj_fail /\ loc'.pulses_this_period >= 1) =>
                   ~loc'.rotated /\ st'[Dev].no_detect_count = 0]_vars

\* a positive counter stayed flat through a tick with an OK sensor and no pulse
C4_Witness ==
    /\ Processed
    /\ ~loc.inj_fail /\ loc.pulses_this_period = 0
    /\ st[loc.dev].no_detect_count > 0

(***************************************************************************)
(* C5.  This tick's pulses are added to the lifetime total of the pump     *)
(* active after the rotation, the other total is unchanged; both totals    *)
(* are non-negative and never decrease.                                    *)
(***************************************************************************)
C5_Attribution ==
    /\ [](\A d \in Devices(cfg) : st[d].pulses_total_A >= 0 /\ st[d].pulses_total_B >= 0)
    /\ [][/\ ProcStep =>
               /\ st'[Dev].active = "A" =>
                     /\ st'[Dev].pulses_total_A =
                           st[Dev].pulses_total_A + loc'.pulses_this_period
                     /\ st'[Dev].pulses_total_B = st[Dev].pulses_total_B
               /\ st'[Dev].active = "B" =>
                     /\ st'[Dev].pulses_total_B =
                           st[Dev].pulses_total_B + loc'.pulses_this_period
                     /\ st'[Dev].pulses_total_A = st[Dev].pulses_total_A
          /\ \A d \in Devices(cfg) :
               /\ st'[d].pulses_total_A >= st[d].pulses_total_A
               /\ st'[d].pulses_total_B >= st[d].pulses_total_B]_vars

\* a rotation tick that issued pulses, all of them counted for the new pump
C5_Witness ==
    /\ Processed
    /\ loc.rotated /\ loc.pulses_this_period > 0
    /\ st[loc.dev].active = "B"
    /\ st[loc.dev].pulses_total_B = loc.pulses_this_period
    /\ st[loc.dev].pulses_total_A > 0

(***************************************************************************)
(* C6.  0 <= tank_l <= capacity in every state; the tank never grows from  *)
(* one step to the next; once it is 0 it stays 0.                          *)
(***************************************************************************)
C6_TankBounded ==
    /\ [](\A d \in Devices(cfg) : 0 <= st[d].tank_l /\ st[d].tank_l <= cfg.tank_liters)
    /\ [][\A d \in Devices(cfg) :
             /\ st'[d].tank_l <= st[d].tank_l
             /\ st[d].tank_l = 0 => st'[d].tank_l = 0]_vars

\* six ticks of 2 pulses of 1 cm3 on a tank of 9 cm3: the fifth tick would
\* leave -1 cm3 and clamps to 0, the sixth runs on the empty tank
C6_Witness ==
    /\ Processed
    /\ cfg.tank_liters = 9000 /\ cfg.E_A_cm3 = 1000
    /\ st[loc.dev].tank_l = 0
    /\ st[loc.dev].pulses_total_A = 12 /\ st[loc.dev].pulses_total_B = 0
    /\ loc.pulses_this_period = 2

(***************************************************************************)
(* C7.  In every state, the initial one included,                          *)
(* level_volts = 1 + 4 * clamp(level_pct, 0, 100) / 100 with               *)
(* level_pct = 100 * tank_l / capacity (0 when the capacity is 0).         *)
(* DeviceState starts with a full tank and level_volts = 4.6, where the    *)
(* formula gives 5.0, so the statement fails in the initial state.         *)
(***************************************************************************)
C7_Percent(d) ==
    IF cfg.tank_liters > 0
    THEN RatMin(RatInt(100), RatMax(RatInt(0), Rat(100 * st[d].tank_l, cfg.tank_liters)))
    ELSE RatInt(0)

C7_LevelDerivedFromTank ==
    \A d \in Devices(cfg) :
        st[d].level_volts = RatAdd(RatInt(1), RatDiv(RatMul(RatInt(4), C7_Percent(d)), RatInt(100)))

(***************************************************************************)
(* C8.  In every state flow_volts and level_volts are in [1.0, 5.0].       *)
(***************************************************************************)
C8_SignalsInRange ==
    \A d \in Devices(cfg) :
        /\ 1000 <= st[d].flow_volts /\ st[d].flow_volts <= 5000
        /\ RatLe(RatInt(1), st[d].level_volts) /\ RatLe(st[d].level_volts, RatInt(5))

\* the flow signal rests on the lower rail after a tick whose step pointed
\* below it, with the level signal on its lower rail as well
C8_Witness ==
    /\ Processed
    /\ st[loc.dev].flow_volts = 1000
    /\ st[loc.dev].level_volts = RatInt(1)
    /\ clock >= StartClock + (MaxIdleTicks - 1) * cfg.period_s

(***************************************************************************)
(* C9.  The records published for one device in one tick.  The statement   *)
(* "at most six" fails: the six telemetry records are followed by the      *)
(* status record whenever it is due.  At most seven are published, all of  *)
(* them for the device of the iteration.                                   *)
(***************************************************************************)
C9_AtMostSixPublishes == Len(outbox) <= 6

C9_AtMostSevenPublishes ==
    /\ Len(outbox) <= 7
    /\ \A i \in 1..Len(outbox) : outbox[i].dev = loc.dev

\* a rotation tick: six telemetry records and the status record
C9_Witness ==
    /\ Processed
    /\ loc.rotated
    /\ Len(outbox) = 7
    /\ outbox[7].topic = StatTopic

(***************************************************************************)
(* C10.  A tick in which the device rotates publishes a status record for  *)
(* it, with the pump active after the rotation and the reason              *)
(* sensor_no_detection_after_5_pulses; a status record of a tick without   *)
(* rotation has no reason.                                                 *)
(***************************************************************************)
C10_StatusOnRotation ==
    [][ProcStep =>
          /\ st'[Dev].active # st[Dev].active =>
                /\ StatusOf(outbox') # <<>>
                /\ \A i \in 1..Len(StatusOf(outbox')) :
                      /\ StatusOf(outbox')[i].dev = Dev
                      /\ StatusOf(outbox')[i].ts = ts
                      /\ StatusOf(outbox')[i].active = st'[Dev].active
                      /\ StatusOf(outbox')[i].reason = "sensor_no_detection_after_5_pulses"
          /\ st'[Dev].active = st[Dev].active =>
                \A i \in 1..Len(StatusOf(outbox')) :
                      /\ StatusOf(outbox')[i].active = st[Dev].active
                      /\ StatusOf(outbox')[i].reason = "None"]_vars

\* the status record of a rotation from A to B
C10_Witness ==
    /\ Processed
    /\ loc.rotated
    /\ st[loc.dev].active = "B"
    /\ StatusOf(outbox) # <<>>
    /\ StatusOf(outbox)[1].active = "B"
    /\ StatusOf(outbox)[1].reason = RotationReason

(***************************************************************************)
(* C11.  In every tick under_limit is true iff the rate before clamping    *)
(* (the theoretical rate times the noise factor) exceeds max_spm; the rate *)
(* after clamping is at most max_spm, and it is the rate that is reported  *)
(* and that gives the pulse count.                                         *)
(***************************************************************************)
QaOf(out) == SelectSeq(out, LAMBDA m : m.topic = "tele/qa/dosing_check")

C11_UnderLimit ==
    Processed =>
        /\ \E u \in NoiseDraws(cfg) : loc.spm_noisy = RatMul(loc.spm_teo, Rat(100 + u, 100))
        /\ loc.under_limit <=> (loc.spm_noisy.n > cfg.max_spm * loc.spm_noisy.d)
        /\ loc.spm_real.n <= cfg.max_spm * loc.spm_real.d
        /\ loc.spm_real = IF loc.under_limit THEN RatInt(cfg.max_spm) ELSE loc.spm_noisy
        /\ loc.pulses_this_period =
              Max(0, RoundHalfEven(RatMul(loc.spm_real, Rat(cfg.period_s, 60))))
        /\ Len(QaOf(outbox)) = 1
        /\ QaOf(outbox)[1].under_dosing_due_to_limit = loc.under_limit
        /\ QaOf(outbox)[1].spm_real \in RoundTo(loc.spm_real, 1000)

\* the noise alone carries the rate over the ceiling: the theoretical rate is
\* below max_spm, the noisy rate above it, the rate used is max_spm
C11_Witness ==
    /\ Processed
    /\ loc.under_limit
    /\ loc.spm_teo.n < cfg.max_spm * loc.spm_teo.d
    /\ loc.spm_real = RatInt(cfg.max_spm)
    /\ loc.pulses_this_period = 8

(***************************************************************************)
(* C12.  Degenerate configurations give zeros, not errors.  When the       *)
(* displacement of the active pump is 0, the theoretical rate, the actual  *)
(* rate, the mismatch and the pulse count of the tick are 0 and            *)
(* under_limit is false.  When the tank capacity is 0, the level percent   *)
(* is 0 and the level signal is 1.0 V after every tick.  In such a         *)
(* configuration the iteration of a device can always be carried out.      *)
(***************************************************************************)
C12_Degenerate ==
    /\ (Processed /\ loc.E = 0) =>
          /\ loc.spm_teo = RatInt(0)
          /\ loc.spm_noisy = RatInt(0)
          /\ loc.spm_real = RatInt(0)
          /\ loc.mismatch_pct = 0
          /\ loc.pulses_this_period = 0
          /\ ~loc.under_limit
    /\ (Processed /\ cfg.tank_liters = 0) =>
          /\ loc.level_pct = RatInt(0)
          /\ st[loc.dev].level_volts = RatInt(1)
    /\ ((cfg.E_A_cm3 = 0 \/ cfg.E_B_cm3 = 0 \/ cfg.tank_liters = 0)
          /\ pc = "for" /\ idx <= Len(cfg.devices)) => ENABLED ProcessDevice

\* a tick of the configuration with both displacements and the capacity 0,
\* with a flow rate above 0
C12_Witness ==
    /\ Processed
    /\ loc.E = 0 /\ cfg.tank_liters = 0
    /\ loc.Q_m3min.n > 0
    /\ loc.inj_fail
    /\ st[loc.dev].level_volts = RatInt(1)
    /\ Len(outbox) = 7

(***************************************************************************)
(* C13.  Devices are independent.  The iteration of one device leaves the  *)
(* state of every other device unchanged, and the state it leaves for its  *)
(* own device is a function of that device's previous state, the           *)
(* configuration and the iteration's three draws: the clock, the refresh   *)
(* timer and the other devices do not enter it.  No other step changes a   *)
(* device's state.                                                         *)
(***************************************************************************)
C13_Independent ==
    [][/\ ProcStep =>
            /\ \A d \in Devices(cfg) \ {Dev} : st'[d] = st[d]
            /\ \E du \in FlowDraws :
                  /\ st'[Dev].flow_volts = clamp(st[Dev].flow_volts + du, 1000, 5000)
                  /\ \E r \in SensorDraws :
                        /\ loc'.inj_fail = sensor_fails(r, cfg)
                        /\ \E u \in NoiseDraws(cfg) :
                              \E res \in Iterate(Dev, st[Dev], cfg, 0, 0, 0, du, u, r) :
                                  st'[Dev] = res.st
       /\ ~ProcStep => st' = st]_vars

\* both devices processed in one tick, the first rotated to B, the second
\* still on A with its counter at 0
C13_Witness ==
    /\ Processed
    /\ loc.dev = "dev-002"
    /\ st["dev-001"].active = "B" /\ st["dev-001"].pulses_total_B = 7
    /\ st["dev-002"].active = "A" /\ st["dev-002"].pulses_total_A = 7
    /\ st["dev-002"].no_detect_count = 0
    /\ ts = StartClock

(***************************************************************************)
(* C14.  Every iteration publishes one pulse record for pump A and one     *)
(* for pump B.  The record of the pump that is inactive after the rotation *)
(* reports 0 pulses and rate 0, the record of the active pump reports this *)
(* tick's pulse count and rate; the lifetime total of each record is that  *)
(* pump's total after this tick's attribution.                             *)
(***************************************************************************)
DoserA(out) == SelectSeq(out, LAMBDA m : m.topic = "tele/pulse/doserA")

DoserB(out) == SelectSeq(out, LAMBDA m : m.topic = "tele/pulse/doserB")

C14_PulseRecords ==
    Processed =>
        /\ Len(DoserA(outbox)) = 1 /\ Len(DoserB(outbox)) = 1
        /\ DoserA(outbox)[1].dev = loc.dev /\ DoserB(outbox)[1].dev = loc.dev
        /\ DoserA(outbox)[1].pulses_total = st[loc.dev].pulses_total_A
        /\ DoserB(outbox)[1].pulses_total = st[loc.dev].pulses_total_B
        /\ DoserA(outbox)[1].embolada_cm3 = cfg.E_A_cm3
        /\ DoserB(outbox)[1].embolada_cm3 = cfg.E_B_cm3
        /\ st[loc.dev].active = "A" =>
              /\ DoserA(outbox)[1].pulses_period = loc.pulses_this_period
              /\ DoserA(outbox)[1].rate_per_min \in RoundTo(loc.spm_real, 1000)
              /\ DoserB(outbox)[1].pulses_period = 0
              /\ DoserB(outbox)[1].rate_per_min = 0
        /\ st[loc.dev].active = "B" =>
              /\ DoserB(outbox)[1].pulses_period = loc.pulses_this_period
              /\ DoserB(outbox)[1].rate_per_min \in RoundTo(loc.spm_real, 1000)
              /\ DoserA(outbox)[1].pulses_period = 0
              /\ DoserA(outbox)[1].rate_per_min = 0

\* a rotation tick: the pulses were computed for A and are reported for B,
\* the record of A reports none of them and A's earlier total
C14_Witness ==
    /\ Processed
    /\ loc.rotated /\ st[loc.dev].active = "B"
    /\ DoserA(outbox)[1].pulses_period = 0 /\ DoserA(outbox)[1].rate_per_min = 0
    /\ DoserA(outbox)[1].pulses_total = 4
    /\ DoserB(outbox)[1].pulses_period = 2 /\ DoserB(outbox)[1].pulses_total = 2
    /\ DoserB(outbox)[1].rate_per_min > 0

(***************************************************************************)
(* C15.  The sleep between ticks and the start times of the ticks.         *)
(* The statement "the sleep is never negative, and every tick starts       *)
(* exactly one period after the previous one" fails: a tick whose          *)
(* processing takes longer than the period is followed at once by the next *)
(* tick, which starts late by the excess, and so does every later tick.    *)
(***************************************************************************)
TickEnd == pc = "for" /\ pc' = "while"

TickStart == pc = "while" /\ pc' = "for"

C15_NoDrift ==
    [][/\ TickEnd => clock' >= clock
       /\ (TickStart /\ t0 # 0) => t0' = t0 + cfg.period_s]_vars

(***************************************************************************)
(* C15, as the code has it.  The sleep is max(0, period - processing time) *)
(* and never negative; a tick starts max(period, processing time) after    *)
(* the previous one: one period later when the processing took at most a   *)
(* period, and with no sleep otherwise.  In a configuration whose          *)
(* processing time cannot exceed the period, every tick starts a whole     *)
(* number of periods after the first.                                      *)
(***************************************************************************)
C15_SleepAbsorbsProcessing ==
    /\ [][/\ TickEnd =>
               /\ clock' >= clock
               /\ clock - t0 <= cfg.period_s => clock' = t0 + cfg.period_s
               /\ clock - t0 > cfg.period_s => clock' = clock
          /\ TickStart => t0' = clock
          /\ (TickStart /\ t0 # 0) =>
               /\ t0' >= t0 + cfg.period_s
               /\ t0' >= now
               /\ t0' = t0 + cfg.period_s \/ t0' = clock]_vars
    /\ [](Len(cfg.devices) * MaxDelay <= cfg.period_s =>
             /\ pc = "for" => (t0 - StartClock) % cfg.period_s = 0
             /\ pc = "while" => (clock - StartClock) % cfg.period_s = 0)

\* the sleep has made up for a processing time of one second: the third tick
\* is over exactly three periods after the start
C15_Witness ==
    /\ pc = "while"
    /\ cfg.period_s = 30
    /\ now = t0 + 1
    /\ t0 = StartClock + 2 * cfg.period_s
    /\ clock = StartClock + 3 * cfg.period_s

(***************************************************************************)
(* C17.  In the initial state and after every iteration, no_detect_count   *)
(* is in 0..4: an iteration that raises it to 5 or more rotates and leaves *)
(* it at 0.                                                                *)
(***************************************************************************)
C17_CounterBelowThreshold ==
    /\ \A d \in Devices(cfg) : st[d].no_detect_count \in 0..4
    /\ (Processed /\ loc.rotated) => st[loc.dev].no_detect_count = 0

\* the counter at 4, one pulse short of the threshold, after a FAIL tick
C17_Witness ==
    /\ Processed
    /\ loc.inj_fail /\ ~loc.rotated
    /\ loc.pulses_this_period = 2
    /\ st[loc.dev].no_detect_count = 4

(***************************************************************************)
(* C18.  Pulse conservation.  The totals start at 0, every iteration adds  *)
(* exactly its pulse count to pulses_total_A + pulses_total_B of its       *)
(* device, rotation or not, and nothing else changes a total.              *)
(***************************************************************************)
C18_Conservation ==
    /\ [](t0 = 0 => \A d \in Devices(cfg) :
                       st[d].pulses_total_A = 0 /\ st[d].pulses_total_B = 0)
    /\ [][/\ ProcStep =>
               st'[Dev].pulses_total_A + st'[Dev].pulses_total_B =
                   st[Dev].pulses_total_A + st[Dev].pulses_total_B + loc'.pulses_this_period
          /\ \A d \in Devices(cfg) :
               (~ProcStep \/ d # Dev) =>
                   /\ st'[d].pulses_total_A = st[d].pulses_total_A
                   /\ st'[d].pulses_total_B = st[d].pulses_total_B]_vars

\* two rotation ticks of seven pulses each, A to B and back: fourteen pulses
\* issued, seven on each total
C18_Witness ==
    /\ Processed
    /\ loc.rotated /\ st[loc.dev].active = "A"
    /\ loc.pulses_this_period = 7
    /\ st[loc.dev].pulses_total_A = 7 /\ st[loc.dev].pulses_total_B = 7

(***************************************************************************)
(* C20.  An iteration that issues zero pulses changes nothing but the      *)
(* flow signal: active, no_detect_count, both totals and tank_l are        *)
(* unchanged and there is no rotation, whatever the sensor reports.  A     *)
(* device that has never issued a pulse is on pump A with its counter 0.   *)
(***************************************************************************)
C20_ZeroPulseTick ==
    /\ [][(ProcStep /\ loc'.pulses_this_period = 0) =>
             /\ st'[Dev].active = st[Dev].active
             /\ st'[Dev].no_detect_count = st[Dev].no_detect_count
             /\ st'[Dev].pulses_total_A = st[Dev].pulses_total_A
             /\ st'[Dev].pulses_total_B = st[Dev].pulses_total_B
             /\ st'[Dev].tank_l = st[Dev].tank_l
             /\ ~loc'.rotated
             /\ loc'.reason = "None"]_vars
    /\ [](\A d \in Devices(cfg) :
             st[d].pulses_total_A + st[d].pulses_total_B = 0 =>
                 st[d].active = "A" /\ st[d].no_detect_count = 0)

\* a FAIL tick without pulses that left a counter of 2 where it was
C20_Witness ==
    /\ Processed
    /\ loc.inj_fail /\ loc.pulses_this_period = 0
    /\ st[loc.dev].no_detect_count = 2
    /\ st[loc.dev].pulses_total_A = 2
    /\ st[loc.dev].tank_l < cfg.tank_liters

(***************************************************************************)
(* C16.  Bounded fail-over.  A series of consecutive ticks in which the    *)
(* sensor reports FAIL and at least one pulse is issued ends in a rotation *)
(* by its fifth tick at the latest: a series that has not rotated yet has  *)
(* at most 4 ticks, because the counter holds at least the pulses of the   *)
(* series, which are at least one per tick.  With p pulses in every tick   *)
(* the rotation comes by tick ceil(5/p).  A FAIL tick with 5 or more       *)
(* pulses rotates in that tick.                                            *)
(***************************************************************************)
C16_BoundedFailover ==
    /\ [](\A d \in Devices(cfg) :
             /\ streak[d].ticks <= 4
             /\ streak[d].ticks <= streak[d].pulses
             /\ streak[d].pulses <= st[d].no_detect_count
             /\ \A p \in 1..5 :
                   streak[d].pulses = p * streak[d].ticks =>
                       streak[d].ticks <= ((5 + p - 1) \div p) - 1)
    /\ [][(ProcStep /\ loc'.inj_fail /\ loc'.pulses_this_period >= 5) =>
             /\ st'[Dev].active # st[Dev].active
             /\ loc'.rotated]_vars

\* the fifth of five consecutive FAIL ticks of one pulse each: the series
\* stood at 4 ticks and 4 pulses, this tick rotates
C16_Witness ==
    /\ Processed
    /\ ts = StartClock + 4 * cfg.period_s
    /\ loc.inj_fail /\ loc.pulses_this_period = 1 /\ loc.rotated
    /\ st[loc.dev].active = "B"
    /\ st[loc.dev].pulses_total_A = 4 /\ st[loc.dev].pulses_total_B = 1
    /\ streak[loc.dev] = NoStreak

(***************************************************************************)
(* C19.  The last status is never stale: at the end of every tick, every   *)
(* device has a last published status record, and the pump it names is the *)
(* device's active pump.                                                   *)
(***************************************************************************)
C19_LastStatusCurrent ==
    (pc = "while" /\ t0 # 0) =>
        \A d \in Devices(cfg) :
            /\ last_stat[d].topic = StatTopic
            /\ last_stat[d].dev = d
            /\ last_stat[d].active = st[d].active

\* the end of a tick in which the first device rotated to B and the second
\* did not: the last status of each names its own pump
C19_Witness ==
    /\ pc = "while" /\ t0 # 0
    /\ Len(cfg.devices) = 2
    /\ st["dev-001"].active = "B" /\ last_stat["dev-001"].active = "B"
    /\ last_stat["dev-001"].reason = RotationReason
    /\ st["dev-002"].active = "A" /\ last_stat["dev-002"].active = "A"
    /\ last_stat["dev-002"].reason = "None"

====
